---- MODULE Spec2Model ----
(***************************************************************************)
(* FORGE.Media (the media resolver) as a state machine.                    *)
(*                                                                         *)
(* One resolver instance is followed from the descriptor it is given,      *)
(* through its constructor (_boot and _parseConfig), the signals of the    *)
(* playable source it built, subscriptions of its owner on onLoadComplete, *)
(* and destroy().                                                          *)
(*                                                                         *)
(* JavaScript values are tagged records, so that typeof, truthiness and    *)
(* === are computed the way the interpreter computes them.                 *)
(***************************************************************************)
EXTENDS Integers, Sequences, FiniteSets, TLC

\* ------------------------------------------------------------------ bounds

\* Longest levels array of a video descriptor.
MaxLevels == 2
\* How many times the playable source may emit its completion signal.
MaxEmits == 2
\* How many owners subscribe to the resolver's onLoadComplete.
NumSubscribers == 1

Subscribers == 1..NumSubscribers

\* ------------------------------------------------------------ JS values

Undefined == [t |-> "undefined"]
Null == [t |-> "null"]
Str(s) == [t |-> "string", s |-> s]
Num(n) == [t |-> "number", n |-> n]
Bool(b) == [t |-> "boolean", b |-> b]
Arr(l) == [t |-> "array", l |-> l]

\* typeof v
TypeOf(v) == IF v.t \in {"null", "array", "object"} THEN "object" ELSE v.t

\* !v
Falsy(v) ==
    \/ v.t \in {"undefined", "null"}
    \/ (v.t = "string" /\ v.s = "")
    \/ (v.t = "number" /\ v.n = 0)
    \/ (v.t = "boolean" /\ ~v.b)

\* v === true
IsTrue(v) == v.t = "boolean" /\ v.b

\* String.prototype.toLowerCase on the strings the model uses.
ToLowerCase(s) == IF s = "DASH" THEN "dash" ELSE s

\* The enumerations the resolver compares against.
MediaTypeUNDEFINED == "undefined"
MediaTypeGRID == "grid"
MediaTypeIMAGE == "image"
MediaTypeVIDEO == "video"
MediaFormatEQUIRECTANGULAR == "equi"
MediaFormatCUBE == "cube"
MediaFormatFLAT == "flat"
VideoFormatDASH == "dash"

\* The messages of the two throw statements, and the interpreter's own error.
ErrMultiResolution == "Multi resolution not implemented yet !"
ErrFormat == "Media format not supported"
ErrTypeError == "TypeError"
NoError == "none"

\* ---------------------------------------------------------- descriptors

Devices == {"A", "B"}
LevelUrls == {"a", "b"}
Level == [device : Devices, url : LevelUrls]

RECURSIVE SeqsUpTo(_, _)
SeqsUpTo(S, n) ==
    IF n = 0 THEN {<<>>}
    ELSE LET shorter == SeqsUpTo(S, n - 1)
         IN shorter \cup {Append(q, x) : q \in {r \in shorter : Len(r) = n - 1}, x \in S}

LevelArrays == {Arr(l) : l \in SeqsUpTo(Level, MaxLevels)}

SourceObj(url, format, levels, streaming) ==
    [t |-> "object", url |-> url, format |-> format, levels |-> levels,
     streaming |-> streaming]

OptionsObj(volume, loop, startTime, autoPlay, autoPause, autoResume) ==
    [t |-> "object", volume |-> volume, loop |-> loop, startTime |-> startTime,
     autoPlay |-> autoPlay, autoPause |-> autoPause, autoResume |-> autoResume]

Descriptor(type, source, options) ==
    [t |-> "object", uid |-> "media-0", type |-> type, source |-> source,
     options |-> options]

Formats == {Undefined, Null, Str(MediaFormatEQUIRECTANGULAR), Str(MediaFormatCUBE),
            Str(MediaFormatFLAT), Str("tiles")}
Urls == {Undefined, Str(""), Str("u")}
Streamings == {Undefined, Str("DASH"), Str("hls")}

OptionObjects ==
    {OptionsObj(v, l, s, p, a, a) :
        v \in {Undefined, Num(0), Str("loud")},
        l \in {Undefined, Bool(FALSE)},
        s \in {Undefined, Num(2)},
        p \in {Undefined, Bool(TRUE)},
        a \in {Undefined, Bool(TRUE)}}

ImageSources ==
    {Undefined, Null}
    \cup {SourceObj(u, f, Undefined, Undefined) : u \in Urls, f \in Formats}

VideoSources ==
    {Undefined, Null}
    \cup {SourceObj(u, Undefined, Undefined, s) : u \in Urls, s \in Streamings}
    \cup {SourceObj(u, Undefined, l, Undefined) :
            u \in {Undefined, Str("u")}, l \in LevelArrays}

PlainVideoSources ==
    {SourceObj(Str("u"), Undefined, Undefined, Undefined),
     SourceObj(Undefined, Str(MediaFormatFLAT),
               Arr(<<[device |-> "A", url |-> "a"]>>), Str("DASH"))}

GridSources ==
    {Undefined, Null,
     SourceObj(Undefined, Undefined, Undefined, Undefined),
     SourceObj(Str("u"), Str(MediaFormatCUBE), Undefined, Undefined)}

\* The descriptors a resolver is constructed with.
Descriptors ==
    {Undefined, Null}
    \cup {Descriptor(MediaTypeGRID, s, o) : s \in GridSources, o \in {Undefined, Null}}
    \cup {Descriptor(MediaTypeIMAGE, s, o) :
            s \in ImageSources, o \in {Undefined, OptionsObj(Num(0), Undefined,
                Undefined, Bool(TRUE), Undefined, Undefined)}}
    \cup {Descriptor(MediaTypeVIDEO, s, Undefined) : s \in VideoSources}
    \cup {Descriptor(MediaTypeVIDEO, s, o) :
            s \in PlainVideoSources, o \in {Null} \cup OptionObjects}
    \cup {Descriptor(ty, s, Undefined) :
            ty \in {MediaTypeUNDEFINED, "sound"}, s \in GridSources}

\* What a freshly constructed video source holds before the resolver touches it.
SourceDefaults ==
    {[volume |-> Num(1), loop |-> Bool(TRUE), currentTime |-> Num(0),
      autoPause |-> Bool(FALSE), autoResume |-> Bool(FALSE)],
     [volume |-> Num(1), loop |-> Bool(FALSE), currentTime |-> Num(0),
      autoPause |-> Bool(TRUE), autoResume |-> Bool(TRUE)]}

VARIABLES
    given,            \* the descriptor as the owner wrote it
    config,           \* this._config: the same object, as the resolver leaves it
    media,            \* the resolver's own fields
    source,           \* the playable source the resolver constructed, if any
    signal,           \* the resolver's onLoadComplete dispatcher
    invoked,          \* per subscriber: how many times it was called
    lateSubscribers,  \* subscribers registered after the signal had fired
    dispatches,       \* one snapshot per dispatch() of onLoadComplete
    sourceAtReturn,   \* the source as it was when the constructor returned
    srcEmitted,       \* how many times the source emitted its completion signal
    thrown,           \* the last error raised by the resolver's code
    phase,            \* "new", "constructed" or "threw"
    destroyed,        \* destroy() has been called
    visibilityState,  \* document[FORGE.Device.visibilityState], as last read
    deviceSupport,    \* the devices FORGE.Device.check accepts
    fxSets,           \* FORGE.PostProcessing#_sets: its own properties
    fxConfig,         \* FORGE.PostProcessing#_config
    fxRegistered,     \* the uids an fxSet entry was registered under
    fxCalls,          \* how many times addConfig was called
    fxInput,          \* the argument parseShaderPasses is called with
    fxResult          \* what the last getFxSetByUID / parseShaderPasses returned

mediaVars == <<given, config, media, source, signal, invoked, lateSubscribers,
               dispatches, sourceAtReturn, srcEmitted, thrown, phase, destroyed,
               visibilityState, deviceSupport>>

fxVars == <<fxSets, fxConfig, fxRegistered, fxCalls, fxInput, fxResult>>

vars == <<mediaVars, fxVars>>

NoSource == [kind |-> "none"]


\* The resolver's code runs on a world: the heap objects it reads and writes.
World ==
    [config |-> config, media |-> media, source |-> source, signal |-> signal,
     invoked |-> invoked, dispatches |-> dispatches, thrown |-> thrown,
     visibilityState |-> visibilityState, deviceSupport |-> deviceSupport]

\* A throw statement, or the interpreter raising: the rest of the call is skipped.
Throw(w, e) == [w EXCEPT !.thrown = e]

\* --------------------------------------------------- FORGE.EventDispatcher

\* new FORGE.EventDispatcher(emitter, memorize)
NewDispatcher(memorize) ==
    [memorize |-> memorize, dispatched |-> FALSE, listeners |-> {}]

\* dispatch(): every listener is called once; a memorizing dispatcher remembers it.
DispatcherDispatch(w) ==
    [w EXCEPT !.signal.dispatched = TRUE,
              !.invoked = [s \in Subscribers |->
                              IF s \in w.signal.listeners THEN @[s] + 1 ELSE @[s]],
              !.dispatches = Append(@, [source |-> w.source,
                                        visibilityState |-> w.visibilityState])]

\* add(listener): a memorizing dispatcher that has fired calls the listener at once.
DispatcherAdd(w, s) ==
    [w EXCEPT !.signal.listeners = @ \cup {s},
              !.invoked[s] = IF w.signal.memorize /\ w.signal.dispatched
                             THEN @ + 1 ELSE @]

\* destroy(): the listeners are dropped.
DispatcherDestroy(w) == [w EXCEPT !.signal.listeners = {}]

\* ------------------------------------------------- the playable sources

\* new FORGE.Image(viewer, {key, url})
NewImage(key, url) ==
    [kind |-> "image", key |-> key, url |-> url, destroyed |-> FALSE,
     listener |-> FALSE, once |-> FALSE]

\* new FORGE.VideoHTML5(viewer, key, null, null, ambisonic) and
\* new FORGE.VideoDash(viewer, key)
NewVideo(kind, key, ambisonic, d) ==
    [kind |-> kind, key |-> key, ambisonic |-> ambisonic,
     volume |-> d.volume, loop |-> d.loop, currentTime |-> d.currentTime,
     autoPause |-> d.autoPause, autoResume |-> d.autoResume,
     plays |-> 0, loads |-> <<>>, destroyed |-> FALSE,
     listener |-> FALSE, once |-> FALSE]

\* source.load(url)
SourceLoad(src, url) == [src EXCEPT !.loads = Append(@, url)]

\* source.play()
SourcePlay(src) == [src EXCEPT !.plays = @ + 1]

\* source.destroy(): the source may or may not drop the listeners of a load
\* that is still in flight.
SourceDestroy(src, detach) ==
    [src EXCEPT !.destroyed = TRUE, !.listener = @ /\ ~detach]

\* ---------------------------------------------------------- FORGE.Media

\* _notifyLoadComplete
NotifyLoadComplete(w) ==
    LET w1 == [w EXCEPT !.media.loaded = TRUE]
    IN IF w1.media.onLoadComplete = "null"
       THEN Throw(w1, ErrTypeError)
       ELSE DispatcherDispatch(w1)

\* _onImageLoadComplete
OnImageLoadComplete(w) == NotifyLoadComplete(w)

\* As OnLoadedMetaDataHandler, but readiness is propagated before the options
\* are applied.
OnLoadedMetaDataHandlerNotifyFirst(w) ==
    LET o == w.media.options
        n == NotifyLoadComplete(w)
    IN IF o.t # "null" /\ w.media.displayObject # "null" /\ n.thrown = NoError
       THEN [n EXCEPT !.source =
                [@ EXCEPT !.volume = IF TypeOf(o.volume) = "number"
                                     THEN o.volume ELSE Num(1),
                          !.loop = IF TypeOf(o.loop) = "boolean"
                                   THEN o.loop ELSE Bool(TRUE),
                          !.currentTime = IF TypeOf(o.startTime) = "number"
                                          THEN o.startTime ELSE Num(0),
                          !.plays = IF IsTrue(o.autoPlay)
                                       /\ w.visibilityState = "visible"
                                    THEN @ + 1 ELSE @,
                          !.autoPause = o.autoPause,
                          !.autoResume = o.autoResume]]
       ELSE n

\* _onLoadedMetaDataHandler
OnLoadedMetaDataHandler(w) ==
    LET o == w.media.options
    IN IF o.t # "null"
       THEN IF w.media.displayObject = "null"
            THEN Throw(w, ErrTypeError)
            ELSE LET s1 == [w.source EXCEPT
                              !.volume = IF TypeOf(o.volume) = "number"
                                         THEN o.volume ELSE Num(1),
                              !.loop = IF TypeOf(o.loop) = "boolean"
                                       THEN o.loop ELSE Bool(TRUE),
                              !.currentTime = IF TypeOf(o.startTime) = "number"
                                              THEN o.startTime ELSE Num(0)]
                     s2 == IF IsTrue(o.autoPlay) /\ w.visibilityState = "visible"
                           THEN SourcePlay(s1) ELSE s1
                     s3 == [s2 EXCEPT !.autoPause = o.autoPause,
                                      !.autoResume = o.autoResume]
                 IN NotifyLoadComplete([w EXCEPT !.source = s3])
       ELSE NotifyLoadComplete(w)

\* As SubscribeOnce, but the handler stays registered after its first call.
SubscribeAlways(src) == [src EXCEPT !.listener = TRUE, !.once = FALSE]

\* As SubscribeOnce, but the handler is never registered.
SubscribeNever(src) == [src EXCEPT !.listener = FALSE, !.once = TRUE]

\* source.onLoadComplete.addOnce(handler) / source.onLoadedMetaData.addOnce(handler)
SubscribeOnce(src) == [src EXCEPT !.listener = TRUE, !.once = TRUE]

\* As DefaultFormat, but a format the descriptor states is overwritten too.
DefaultFormatAlways(w) ==
    IF TypeOf(w.config.source) = "undefined" THEN w
    ELSE IF w.config.source.t = "null" THEN Throw(w, ErrTypeError)
    ELSE [w EXCEPT !.config.source.format = Str(MediaFormatFLAT)]

\* _parseConfig: config.source.format defaults to FLAT
DefaultFormat(w) ==
    IF TypeOf(w.config.source) = "undefined" THEN w
    ELSE IF w.config.source.t = "null" THEN Throw(w, ErrTypeError)
    ELSE IF TypeOf(w.config.source.format) = "undefined"
         THEN [w EXCEPT !.config.source.format = Str(MediaFormatFLAT)]
         ELSE w

\* As FilterLevels, but each surviving url is put in front of the list.
RECURSIVE FilterLevelsPrepend(_, _)
FilterLevelsPrepend(levels, support) ==
    IF levels = <<>> THEN <<>>
    ELSE LET rest == FilterLevelsPrepend(SubSeq(levels, 1, Len(levels) - 1), support)
             last == levels[Len(levels)]
         IN IF last.device \notin support THEN rest ELSE <<Str(last.url)>> \o rest

\* _parseConfig: the loop over source.levels
RECURSIVE FilterLevels(_, _)
FilterLevels(levels, support) ==
    IF levels = <<>> THEN <<>>
    ELSE LET rest == FilterLevels(SubSeq(levels, 1, Len(levels) - 1), support)
             last == levels[Len(levels)]
         IN IF last.device \notin support THEN rest ELSE Append(rest, Str(last.url))

\* As ImageBranch, but readiness is propagated as soon as the image is constructed.
ImageBranchEager(w) ==
    LET src == w.config.source
    IN IF Falsy(src.url)
       THEN Throw(w, ErrMultiResolution)
       ELSE IF src.format = Str(MediaFormatEQUIRECTANGULAR)
                \/ src.format = Str(MediaFormatCUBE)
                \/ src.format = Str(MediaFormatFLAT)
            THEN NotifyLoadComplete(
                    [w EXCEPT !.source = NewImage(w.media.uid, src.url),
                              !.media.displayObject = "source"])
            ELSE Throw(w, ErrFormat)

\* As ImageBranch, but the image is constructed before its format is checked.
ImageBranchLateCheck(w) ==
    LET src == w.config.source
        w1 == [w EXCEPT !.source = NewImage(w.media.uid, src.url),
                        !.media.displayObject = "source"]
    IN IF Falsy(src.url)
       THEN Throw(w, ErrMultiResolution)
       ELSE IF src.format = Str(MediaFormatEQUIRECTANGULAR)
                \/ src.format = Str(MediaFormatCUBE)
                \/ src.format = Str(MediaFormatFLAT)
            THEN [w1 EXCEPT !.source = SubscribeOnce(@)]
            ELSE Throw(w1, ErrFormat)

\* _parseConfig: the Image branch
ImageBranch(w) ==
    LET src == w.config.source
    IN IF Falsy(src.url)
       THEN Throw(w, ErrMultiResolution)
       ELSE IF src.format = Str(MediaFormatEQUIRECTANGULAR)
                \/ src.format = Str(MediaFormatCUBE)
                \/ src.format = Str(MediaFormatFLAT)
            THEN [w EXCEPT !.source = SubscribeOnce(NewImage(w.media.uid, src.url)),
                           !.media.displayObject = "source"]
            ELSE Throw(w, ErrFormat)

\* _parseConfig: the Video branch
VideoBranch(w, d, hasSoundTarget, isAmbisonic) ==
    LET w1 == IF w.config.source.levels.t = "array"
              THEN [w EXCEPT !.config.source.url =
                        Arr(FilterLevels(w.config.source.levels.l, w.deviceSupport))]
              ELSE w
        src == w1.config.source
    IN IF src.url.t \in {"undefined", "null"}
       THEN Throw(w1, ErrTypeError)
       ELSE IF TypeOf(src.url) # "string" /\ src.url.t = "array" /\ Len(src.url.l) = 0
       THEN w1
       ELSE LET video ==
                    IF TypeOf(src.streaming) # "undefined"
                       /\ ToLowerCase(src.streaming.s) = VideoFormatDASH
                    THEN NewVideo("videoDash", w1.media.uid, FALSE, d)
                    ELSE NewVideo("videoHTML5", w1.media.uid,
                                  hasSoundTarget /\ isAmbisonic, d)
            IN [w1 EXCEPT !.source = SubscribeOnce(SourceLoad(video, src.url)),
                          !.media.displayObject = "source"]

\* As ParseConfig, but every type that is not Grid or Image is loaded as a video.
ParseConfigNoTypeTest(w, d, hasSoundTarget, isAmbisonic) ==
    IF w.config.t \in {"undefined", "null"}
    THEN NotifyLoadComplete([w EXCEPT !.media.type = MediaTypeUNDEFINED])
    ELSE LET w1 == [w EXCEPT !.media.uid = w.config.uid,
                             !.media.options =
                                 IF TypeOf(w.config.options) # "undefined"
                                 THEN w.config.options ELSE Null,
                             !.media.type = w.config.type]
             w2 == DefaultFormat(w1)
         IN IF w2.thrown # NoError THEN w2
            ELSE IF w2.media.type = MediaTypeGRID THEN NotifyLoadComplete(w2)
            ELSE IF w2.config.source.t \in {"undefined", "null"} THEN w2
            ELSE IF w2.media.type = MediaTypeIMAGE THEN ImageBranch(w2)
            ELSE VideoBranch(w2, d, hasSoundTarget, isAmbisonic)

\* _parseConfig
ParseConfig(w, d, hasSoundTarget, isAmbisonic) ==
    IF w.config.t \in {"undefined", "null"}
    THEN NotifyLoadComplete([w EXCEPT !.media.type = MediaTypeUNDEFINED])
    ELSE LET w1 == [w EXCEPT !.media.uid = w.config.uid,
                             !.media.options =
                                 IF TypeOf(w.config.options) # "undefined"
                                 THEN w.config.options ELSE Null,
                             !.media.type = w.config.type]
             w2 == DefaultFormat(w1)
         IN IF w2.thrown # NoError THEN w2
            ELSE IF w2.media.type = MediaTypeGRID THEN NotifyLoadComplete(w2)
            ELSE IF w2.config.source.t \in {"undefined", "null"} THEN w2
            ELSE IF w2.media.type = MediaTypeIMAGE THEN ImageBranch(w2)
            ELSE IF w2.media.type = MediaTypeVIDEO
                 THEN VideoBranch(w2, d, hasSoundTarget, isAmbisonic)
            ELSE w2

\* As Boot, but the dispatcher does not memorize.
BootNoMemorize(w, d, hasSoundTarget, isAmbisonic) ==
    ParseConfig([w EXCEPT !.signal = NewDispatcher(FALSE),
                          !.media.onLoadComplete = "dispatcher"],
                d, hasSoundTarget, isAmbisonic)

\* _boot, called by the constructor
Boot(w, d, hasSoundTarget, isAmbisonic) ==
    ParseConfig([w EXCEPT !.signal = NewDispatcher(TRUE),
                          !.media.onLoadComplete = "dispatcher"],
                d, hasSoundTarget, isAmbisonic)

\* As DestroyMedia, but the source is destroyed without testing that there is one.
DestroyMediaUnguarded(w, detach) ==
    LET w1 == IF w.media.displayObject # "null"
              THEN [w EXCEPT !.source = SourceDestroy(@, detach),
                             !.media.displayObject = "null"]
              ELSE Throw(w, ErrTypeError)
        w2 == IF w1.media.onLoadComplete # "null"
              THEN [DispatcherDestroy(w1) EXCEPT !.media.onLoadComplete = "null"]
              ELSE w1
    IN IF w1.thrown # w.thrown THEN w1 ELSE [w2 EXCEPT !.media.viewer = "null"]

\* destroy
DestroyMedia(w, detach) ==
    LET w1 == IF w.media.displayObject # "null"
              THEN [w EXCEPT !.source = SourceDestroy(@, detach),
                             !.media.displayObject = "null"]
              ELSE w
        w2 == IF w1.media.onLoadComplete # "null"
              THEN [DispatcherDestroy(w1) EXCEPT !.media.onLoadComplete = "null"]
              ELSE w1
    IN [w2 EXCEPT !.media.viewer = "null"]

\* ------------------------------------------------- FORGE.PostProcessing

\* Bounds of the post-processing inputs.
\* Most addConfig calls on one instance.
MaxConfigs == 2
\* Longest fxSets array of a configuration.
MaxFxSets == 2
\* Longest descriptor sequence parseShaderPasses is called with.
MaxFx == 2
\* Most parameters of one effect descriptor.
MaxParams == 1

\* An object with the own properties p.
Obj(p) == [t |-> "object", p |-> p]

\* o.hasOwnProperty(name)
HasOwn(o, name) == o.t = "object" /\ name \in DOMAIN o.p

\* The characters of the strings the model uses.
StringChars == [red |-> <<"r", "e", "d">>, blue |-> <<"b", "l", "u", "e">>]

\* v.length, for a v that is not null or undefined
JsLength(v) ==
    IF v.t = "array" THEN Num(Len(v.l))
    ELSE IF v.t = "string" THEN Num(Len(StringChars[v.s]))
    ELSE Undefined

\* v[i], for a v that is not null or undefined
JsIndex(v, i) ==
    IF v.t = "array" THEN (IF i + 1 <= Len(v.l) THEN v.l[i + 1] ELSE Undefined)
    ELSE IF v.t = "string"
         THEN (IF i + 1 <= Len(StringChars[v.s])
               THEN Str(StringChars[v.s][i + 1]) ELSE Undefined)
    ELSE Undefined

ErrColor == "Cannot create THREE.Color"

\* The values the THREE constructors build.
Color3(r, g, b) == [t |-> "THREE.Color", rgb |-> <<r, g, b>>]
Color1(v) == [t |-> "THREE.Color", from |-> v]
Vector2(x, y) == [t |-> "THREE.Vector2", xy |-> <<x, y>>]
Vector3(x, y, z) == [t |-> "THREE.Vector3", xyz |-> <<x, y, z>>]

\* The THREE namespace: its own properties, and the uniforms a pass built from
\* each exposes (hasUniforms is false for an entry whose pass has no uniforms).
Catalog ==
    [SepiaShader |-> [hasUniforms |-> TRUE, uniforms |-> {"amount", "tint"}],
     ClearPass |-> [hasUniforms |-> FALSE, uniforms |-> {}]]

\* new FORGE.ShaderPass(uid, type, shader)
NewShaderPass(uid, type, shader) ==
    [uid |-> uid, type |-> type, hasUniforms |-> shader.hasUniforms,
     uniforms |-> [n \in shader.uniforms |-> Undefined]]

\* Object.prototype: what a lookup on {} finds when there is no own property.
ObjectPrototypeKeys == {"constructor"}
Inherited(name) == [t |-> "function", name |-> name]

\* -- inputs

FxKeys == {"k1", "k2", "constructor"}

TypedValue(type, args) == Obj([type |-> Str(type), args |-> args])

ParamValues ==
    {Num(1), Str("x"), Null,
     TypedValue("THREE.Color", Arr(<<Num(1), Num(2), Num(3)>>)),
     TypedValue("THREE.Color", Arr(<<Str("red")>>)),
     TypedValue("THREE.Color", Arr(<<Num(255)>>)),
     TypedValue("THREE.Color", Arr(<<Num(1), Num(2)>>)),
     TypedValue("THREE.Color", Arr(<<>>)),
     TypedValue("THREE.Color", Str("blue")),
     TypedValue("THREE.Color", Str("red")),
     TypedValue("THREE.Color", Num(255)),
     TypedValue("THREE.Vector2", Arr(<<Num(1), Num(2)>>)),
     TypedValue("THREE.Vector2", Arr(<<Num(1)>>)),
     TypedValue("THREE.Vector3", Arr(<<Num(1), Num(2), Num(3)>>)),
     TypedValue("THREE.Vector3", Arr(<<>>)),
     TypedValue("THREE.Matrix3", Arr(<<Num(1)>>)),
     Obj([type |-> Str("THREE.Color")])}

ParamNames == {"amount", "ghost"}
Param == [name : ParamNames, value : ParamValues]

\* The parameters of one descriptor, in property order; names are distinct.
ParamLists ==
    {ps \in SeqsUpTo(Param, MaxParams) :
        \A i, j \in DOMAIN ps : ps[i].name = ps[j].name => i = j}

FxTypes == {"SepiaShader", "ClearPass", "GlowShader"}
FxUids == {"fx-1", "fx-2"}

Fx(uid, type, params) == [uid |-> uid, type |-> type, params |-> params]

SimpleFx ==
    {Fx(u, ty, ps) :
        u \in FxUids, ty \in FxTypes,
        ps \in {<<>>, <<[name |-> "amount", value |-> Num(1)]>>,
                <<[name |-> "amount",
                   value |-> TypedValue("THREE.Color", Arr(<<Num(1), Num(2)>>))]>>}}

\* What parseShaderPasses is called with.
CompileInputs ==
    {Undefined, Null}
    \cup {Arr(l) : l \in SeqsUpTo(SimpleFx, MaxFx)}
    \cup {Arr(<<Fx("fx-1", ty, ps)>>) :
            ty \in {"SepiaShader", "ClearPass"}, ps \in ParamLists}

FxSetValues == {Arr(<<>>), Arr(<<Fx("fx-1", "SepiaShader", <<>>)>>)}
FxSetEntry == [uid : FxKeys, set : FxSetValues]

\* What addConfig is called with.
FxConfigs ==
    {[uid |-> "fx-config", fxSets |-> Undefined]}
    \cup {[uid |-> "fx-config", fxSets |-> Arr(l)] :
            l \in SeqsUpTo(FxSetEntry, MaxFxSets)}

\* -- operations

\* parseShaderPasses: the value bound for one parameter
ResolveParam(paramValue) ==
    IF TypeOf(paramValue) # "object" THEN [value |-> paramValue, thrown |-> NoError]
    ELSE IF paramValue.t = "null" THEN [value |-> Undefined, thrown |-> ErrTypeError]
    ELSE IF ~(HasOwn(paramValue, "type") /\ HasOwn(paramValue, "args"))
         THEN [value |-> paramValue, thrown |-> NoError]
    ELSE LET args == paramValue.p.args
             type == paramValue.p.type
         IN IF type \notin {Str("THREE.Color"), Str("THREE.Vector2"),
                            Str("THREE.Vector3")}
            THEN [value |-> paramValue, thrown |-> NoError]
            ELSE IF args.t \in {"undefined", "null"}
            THEN [value |-> Undefined, thrown |-> ErrTypeError]
            ELSE IF type = Str("THREE.Color")
            THEN IF JsLength(args) = Num(3)
                 THEN [value |-> Color3(JsIndex(args, 0), JsIndex(args, 1),
                                        JsIndex(args, 2)),
                       thrown |-> NoError]
                 ELSE IF TypeOf(args) \in {"string", "number"}
                 THEN [value |-> Color1(args), thrown |-> NoError]
                 ELSE [value |-> Undefined, thrown |-> ErrColor]
            ELSE IF type = Str("THREE.Vector2")
            THEN [value |-> Vector2(JsIndex(args, 0), JsIndex(args, 1)),
                  thrown |-> NoError]
            ELSE [value |-> Vector3(JsIndex(args, 0), JsIndex(args, 1),
                                    JsIndex(args, 2)),
                  thrown |-> NoError]

\* parseShaderPasses: the for..in loop over fx.params
RECURSIVE BindParams(_, _)
BindParams(pass, params) ==
    IF params = <<>> THEN [pass |-> pass, thrown |-> NoError]
    ELSE LET before == BindParams(pass, SubSeq(params, 1, Len(params) - 1))
             param == params[Len(params)]
             r == ResolveParam(param.value)
         IN IF before.thrown # NoError THEN before
            ELSE IF r.thrown # NoError
                 THEN [pass |-> before.pass, thrown |-> r.thrown]
            ELSE IF param.name \notin DOMAIN before.pass.uniforms
                 THEN [pass |-> before.pass, thrown |-> ErrTypeError]
            ELSE [pass |-> [before.pass EXCEPT !.uniforms[param.name] = r.value],
                  thrown |-> NoError]

\* The effect types the catalog knows are exactly those of a prefix.
AllKnown(fxs) == \A i \in DOMAIN fxs : fxs[i].type \in DOMAIN Catalog

\* The pass of one descriptor whose type the catalog knows.
CompileOne(before, fx) ==
    LET pass == NewShaderPass(fx.uid, fx.type, Catalog[fx.type])
        b == IF pass.hasUniforms THEN BindParams(pass, fx.params)
             ELSE [pass |-> pass, thrown |-> NoError]
    IN IF b.thrown # NoError
       THEN [before EXCEPT !.thrown = b.thrown]
       ELSE [before EXCEPT !.passes = Append(@, b.pass)]

\* As ShaderPasses, but the loop ends at the first unknown effect type.
RECURSIVE ShaderPassesBreak(_)
ShaderPassesBreak(fxs) ==
    IF fxs = <<>> THEN [passes |-> <<>>, thrown |-> NoError]
    ELSE LET front == SubSeq(fxs, 1, Len(fxs) - 1)
             before == ShaderPassesBreak(front)
             fx == fxs[Len(fxs)]
         IN IF before.thrown # NoError THEN before
            ELSE IF fx.type \notin DOMAIN Catalog \/ ~AllKnown(front) THEN before
            ELSE CompileOne(before, fx)

\* parseShaderPasses: the loop over the descriptors
RECURSIVE ShaderPasses(_)
ShaderPasses(fxs) ==
    IF fxs = <<>> THEN [passes |-> <<>>, thrown |-> NoError]
    ELSE LET before == ShaderPasses(SubSeq(fxs, 1, Len(fxs) - 1))
             fx == fxs[Len(fxs)]
         IN IF before.thrown # NoError THEN before
            ELSE IF fx.type \notin DOMAIN Catalog THEN before
            ELSE CompileOne(before, fx)

\* parseShaderPasses: what it returns, or what it throws
ParseShaderPasses(fxConfigArg) ==
    IF fxConfigArg.t \in {"undefined", "null"} \/ JsLength(fxConfigArg) = Num(0)
    THEN [op |-> "parseShaderPasses", passes |-> <<>>, thrown |-> NoError]
    ELSE LET r == ShaderPasses(fxConfigArg.l)
         IN [op |-> "parseShaderPasses",
             passes |-> IF r.thrown = NoError THEN r.passes ELSE <<>>,
             thrown |-> r.thrown]

\* this._sets[uid] = set
SetOwn(sets, uid, set) ==
    [k \in DOMAIN sets \cup {uid} |-> IF k = uid THEN set ELSE sets[k]]

\* As RegisterFxSets, but a uid that is already registered keeps its set.
RECURSIVE RegisterFxSetsKeepFirst(_, _)
RegisterFxSetsKeepFirst(sets, entries) ==
    IF entries = <<>> THEN sets
    ELSE LET before == RegisterFxSetsKeepFirst(sets,
                            SubSeq(entries, 1, Len(entries) - 1))
             fxConfigI == entries[Len(entries)]
         IN IF fxConfigI.uid \in DOMAIN before THEN before
            ELSE SetOwn(before, fxConfigI.uid, fxConfigI.set)

\* _parseConfig: the loop over config.fxSets
RECURSIVE RegisterFxSets(_, _)
RegisterFxSets(sets, entries) ==
    IF entries = <<>> THEN sets
    ELSE LET before == RegisterFxSets(sets, SubSeq(entries, 1, Len(entries) - 1))
             fxConfigI == entries[Len(entries)]
         IN SetOwn(before, fxConfigI.uid, fxConfigI.set)

\* _parseConfig
ParseFxConfig(sets, cfg) ==
    IF TypeOf(cfg.fxSets) # "undefined" /\ Len(cfg.fxSets.l) > 0
    THEN RegisterFxSets(sets, cfg.fxSets.l)
    ELSE sets

\* getFxSetByUID: this._sets[uid]
GetFxSetByUID(sets, uid) ==
    IF uid \in DOMAIN sets THEN sets[uid]
    ELSE IF uid \in ObjectPrototypeKeys THEN Inherited(uid)
    ELSE Undefined

NoResult == [op |-> "none"]

\* new FORGE.PostProcessing(viewer)
FxInit ==
    /\ fxSets = [k \in {} |-> Undefined]
    /\ fxConfig = Null
    /\ fxRegistered = {}
    /\ fxCalls = 0
    /\ fxResult = NoResult

\* --------------------------------------------------------------- actions

Apply(w) ==
    /\ config' = w.config
    /\ media' = w.media
    /\ source' = w.source
    /\ signal' = w.signal
    /\ invoked' = w.invoked
    /\ dispatches' = w.dispatches
    /\ thrown' = w.thrown

Init ==
    /\ given \in Descriptors
    /\ config = given
    /\ media = [viewer |-> "viewer", type |-> "", uid |-> Undefined, options |-> Null,
                displayObject |-> "null", loaded |-> FALSE, onLoadComplete |-> "null"]
    /\ source = NoSource
    /\ signal = NewDispatcher(FALSE)
    /\ invoked = [s \in Subscribers |-> 0]
    /\ lateSubscribers = {}
    /\ dispatches = <<>>
    /\ sourceAtReturn = NoSource
    /\ srcEmitted = 0
    /\ thrown = NoError
    /\ phase = "new"
    /\ destroyed = FALSE
    /\ visibilityState = "visible"
    /\ deviceSupport \in SUBSET Devices
    /\ FxInit
    /\ fxInput = Undefined

\* new FORGE.Media(viewer, config)
Construct ==
    /\ phase = "new"
    /\ \E d \in SourceDefaults, hasSoundTarget \in BOOLEAN, isAmbisonic \in BOOLEAN :
          LET w == Boot(World, d, hasSoundTarget, isAmbisonic)
          IN /\ Apply(w)
             /\ sourceAtReturn' = w.source
             /\ phase' = IF w.thrown # NoError THEN "threw" ELSE "constructed"
    /\ UNCHANGED <<given, lateSubscribers, srcEmitted, destroyed, visibilityState,
                   deviceSupport>>
    /\ UNCHANGED fxVars

\* media.onLoadComplete.add(listener), by the resolver's owner
Subscribe(s) ==
    /\ phase = "constructed"
    /\ media.onLoadComplete # "null"
    /\ s \notin signal.listeners
    /\ Apply(DispatcherAdd(World, s))
    /\ lateSubscribers' = IF signal.dispatched THEN lateSubscribers \cup {s}
                          ELSE lateSubscribers
    /\ UNCHANGED <<given, sourceAtReturn, srcEmitted, phase, destroyed,
                   visibilityState, deviceSupport>>
    /\ UNCHANGED fxVars

\* The source emits its load-complete / metadata-loaded signal; the page is
\* visible or hidden at that moment.
SourceSignal ==
    /\ source.kind # "none"
    /\ srcEmitted < MaxEmits
    /\ srcEmitted' = srcEmitted + 1
    /\ \E visibility \in {"visible", "hidden"} :
          /\ visibilityState' = visibility
          /\ IF source.listener
             THEN LET w == [World EXCEPT !.source.listener = ~source.once,
                                         !.visibilityState = visibility]
                  IN IF source.kind = "image"
                     THEN Apply(OnImageLoadComplete(w))
                     ELSE Apply(OnLoadedMetaDataHandler(w))
             ELSE UNCHANGED <<config, media, source, signal, invoked, dispatches,
                              thrown>>
    /\ UNCHANGED <<given, lateSubscribers, sourceAtReturn, phase, destroyed,
                   deviceSupport>>
    /\ UNCHANGED fxVars

\* media.destroy(), by the resolver's owner
Destroy ==
    /\ phase = "constructed"
    /\ \E detach \in BOOLEAN : Apply(DestroyMedia(World, detach))
    /\ destroyed' = TRUE
    /\ UNCHANGED <<given, lateSubscribers, sourceAtReturn, srcEmitted, phase,
                   visibilityState, deviceSupport>>
    /\ UNCHANGED fxVars

Next ==
    \/ Construct
    \/ \E s \in Subscribers : Subscribe(s)
    \/ SourceSignal
    \/ Destroy

Spec == Init /\ [][Next]_vars

\* ---------------------------------------------- FORGE.PostProcessing actions

\* No resolver is being followed.
MediaIdle ==
    /\ given = Undefined
    /\ config = given
    /\ media = [viewer |-> "viewer", type |-> "", uid |-> Undefined, options |-> Null,
                displayObject |-> "null", loaded |-> FALSE, onLoadComplete |-> "null"]
    /\ source = NoSource
    /\ signal = NewDispatcher(FALSE)
    /\ invoked = [s \in Subscribers |-> 0]
    /\ lateSubscribers = {}
    /\ dispatches = <<>>
    /\ sourceAtReturn = NoSource
    /\ srcEmitted = 0
    /\ thrown = NoError
    /\ phase = "new"
    /\ destroyed = FALSE
    /\ visibilityState = "visible"
    /\ deviceSupport = {}

\* addConfig(config)
AddConfig(cfg) ==
    /\ fxCalls < MaxConfigs
    /\ fxCalls' = fxCalls + 1
    /\ fxConfig' = cfg
    /\ fxSets' = ParseFxConfig(fxSets, cfg)
    /\ fxRegistered' = fxRegistered \cup
            (IF cfg.fxSets.t = "array"
             THEN {cfg.fxSets.l[i].uid : i \in DOMAIN cfg.fxSets.l} ELSE {})
    /\ fxResult' = NoResult
    /\ UNCHANGED <<fxInput, mediaVars>>

\* getFxSetByUID(uid)
GetFxSet(uid) ==
    /\ fxResult' = [op |-> "getFxSetByUID", uid |-> uid,
                    value |-> GetFxSetByUID(fxSets, uid)]
    /\ UNCHANGED <<fxSets, fxConfig, fxRegistered, fxCalls, fxInput, mediaVars>>

InitSets == MediaIdle /\ FxInit /\ fxInput = Undefined

NextSets ==
    \/ \E cfg \in FxConfigs : AddConfig(cfg)
    \/ \E uid \in FxKeys : GetFxSet(uid)

SpecSets == InitSets /\ [][NextSets]_vars

\* parseShaderPasses(fxInput)
Compile ==
    /\ fxResult = NoResult
    /\ fxResult' = ParseShaderPasses(fxInput)
    /\ UNCHANGED <<fxSets, fxConfig, fxRegistered, fxCalls, fxInput, mediaVars>>

InitCompile == MediaIdle /\ FxInit /\ fxInput \in CompileInputs

NextCompile == Compile

SpecCompile == InitCompile /\ [][NextCompile]_vars

\* ---------------------------------------------------------------- claims

GivenAbsent == given.t \in {"undefined", "null"}
GivenType(ty) == given.t = "object" /\ given.type = ty
GivenSourceObject == given.t = "object" /\ given.source.t = "object"
SupportedFormats == {Str(MediaFormatEQUIRECTANGULAR), Str(MediaFormatCUBE),
                     Str(MediaFormatFLAT)}
Fired == Len(dispatches)

\* The urls of the levels the device predicate does not reject, in order.
SurvivingUrls(levels, support) ==
    LET kept == SelectSeq(levels, LAMBDA lv : lv.device \in support)
    IN [i \in 1..Len(kept) |-> Str(kept[i].url)]

\* C1: a resolver constructed with an absent descriptor or a Grid descriptor
\* (whatever its source) dispatches onLoadComplete exactly once during
\* construction, does not raise, and is loaded when construction returns.
C1_GridOrAbsentFiresOnce ==
    (phase # "new" /\ (GivenAbsent \/ GivenType(MediaTypeGRID)))
        => /\ phase = "constructed"
           /\ thrown = NoError
           /\ Fired = 1
           /\ media.loaded

\* C2: a resolver dispatches onLoadComplete at most once, whatever the source
\* emits and whenever destroy() is called.
C2_AtMostOneDispatch == Fired <= 1

C2_Witness ==
    /\ source.kind # "none"
    /\ srcEmitted >= 2
    /\ Fired = 1

\* C3: in every state, loaded is true if and only if onLoadComplete has fired.
C3_LoadedIffFired == media.loaded <=> (Fired > 0)

\* C4: an Image descriptor with a url and a supported (or unset) format is
\* constructed with an image source, is not loaded when construction returns,
\* and fires onLoadComplete only after the image's own signal.
GoodImage ==
    /\ GivenType(MediaTypeIMAGE)
    /\ GivenSourceObject
    /\ ~Falsy(given.source.url)
    /\ given.source.format \in SupportedFormats \cup {Undefined}

C4_ImageFiresAfterSource ==
    (phase # "new" /\ GoodImage)
        => /\ phase = "constructed"
           /\ sourceAtReturn.kind = "image"
           /\ ~destroyed => media.displayObject = "source"
           /\ srcEmitted = 0 => (~media.loaded /\ Fired = 0)

C4_Witness ==
    /\ GoodImage
    /\ given.source.format = Undefined
    /\ srcEmitted >= 1
    /\ Fired = 1
    /\ media.loaded

\* C5: a Video descriptor whose resolved url is neither a non-empty string nor
\* a non-empty sequence stops silently: no error, no source, no load(), no
\* readiness.
EmptyVideoUrl ==
    /\ GivenType(MediaTypeVIDEO)
    /\ GivenSourceObject
    /\ IF given.source.levels.t = "array"
       THEN SurvivingUrls(given.source.levels.l, deviceSupport) = <<>>
       ELSE given.source.url \in {Undefined, Str("")}

C5_EmptyVideoStopsSilently ==
    (phase # "new" /\ EmptyVideoUrl)
        => /\ phase = "constructed"
           /\ thrown = NoError
           /\ source = NoSource
           /\ ~media.loaded
           /\ Fired = 0

\* C6: a descriptor that is not a Grid and has an absent or null source stops
\* silently: construction returns without raising, no source, no readiness.
C6_NoSourceStopsSilently ==
    (/\ phase # "new"
     /\ given.t = "object"
     /\ given.type # MediaTypeGRID
     /\ given.source.t \in {"undefined", "null"})
        => /\ phase = "constructed"
           /\ thrown = NoError
           /\ source = NoSource
           /\ Fired = 0

\* C7: an Image descriptor with a source but no url, or with a format outside
\* the supported ones, makes construction throw before any source is
\* constructed: displayObject is null, loaded is false, nothing has fired.
BadImage ==
    /\ GivenType(MediaTypeIMAGE)
    /\ GivenSourceObject
    /\ \/ given.source.url = Undefined
       \/ given.source.format \notin SupportedFormats \cup {Undefined}

C7_BadImageThrowsBeforeSource ==
    (phase # "new" /\ BadImage)
        => /\ phase = "threw"
           /\ thrown \in {ErrMultiResolution, ErrFormat}
           /\ source = NoSource
           /\ media.displayObject = "null"
           /\ ~media.loaded
           /\ Fired = 0

C7_Witness ==
    /\ BadImage
    /\ given.source.url = Str("u")
    /\ phase = "threw"
    /\ thrown = ErrFormat

\* C8: for a Video descriptor with a levels array, the list passed to load()
\* is exactly the urls of the levels the device predicate does not reject, in
\* their original order.
C8_LoadGetsSurvivingLevels ==
    (/\ phase = "constructed"
     /\ GivenType(MediaTypeVIDEO)
     /\ GivenSourceObject
     /\ given.source.levels.t = "array")
        => LET urls == SurvivingUrls(given.source.levels.l, deviceSupport)
           IN IF urls = <<>>
              THEN sourceAtReturn = NoSource
              ELSE sourceAtReturn.loads = <<Arr(urls)>>

C8_Witness ==
    /\ phase = "constructed"
    /\ GivenType(MediaTypeVIDEO)
    /\ GivenSourceObject
    /\ given.source.levels = Arr(<<[device |-> "A", url |-> "a"],
                                   [device |-> "B", url |-> "b"]>>)
    /\ deviceSupport = {"B"}
    /\ sourceAtReturn.loads = <<Arr(<<Str("b")>>)>>

\* C9 (as claimed): whenever a Video resolver dispatches onLoadComplete, with
\* options present or absent, the source's volume is options.volume or 1, loop
\* is options.loop or true, currentTime is options.startTime or 0, and play()
\* has been called iff autoPlay is true and the page is visible.
OptionOr(o, field, type, default) ==
    IF o.t = "object" /\ TypeOf(o[field]) = type THEN o[field] ELSE default

PlayExpected(o, visibility) ==
    IF o.t = "object" /\ IsTrue(o.autoPlay) /\ visibility = "visible" THEN 1 ELSE 0

C9_OptionsOrDefaultsAtDispatch ==
    \A i \in DOMAIN dispatches :
        dispatches[i].source.kind \in {"videoHTML5", "videoDash"}
            => LET src == dispatches[i].source
                   o == given.options
               IN /\ src.volume = OptionOr(o, "volume", "number", Num(1))
                  /\ src.loop = OptionOr(o, "loop", "boolean", Bool(TRUE))
                  /\ src.currentTime = OptionOr(o, "startTime", "number", Num(0))
                  /\ o.t = "object" => /\ src.autoPause = o.autoPause
                                       /\ src.autoResume = o.autoResume
                  /\ src.plays = PlayExpected(o, dispatches[i].visibilityState)

\* C9 (amended): when the options are present the above holds; when they are
\* absent or null the source is dispatched exactly as it was when the
\* constructor returned, and play() has not been called.
C9_OptionsAppliedBeforeDispatch ==
    \A i \in DOMAIN dispatches :
        dispatches[i].source.kind \in {"videoHTML5", "videoDash"}
            => LET src == dispatches[i].source
                   o == given.options
               IN IF o.t = "object"
                  THEN /\ src.volume = OptionOr(o, "volume", "number", Num(1))
                       /\ src.loop = OptionOr(o, "loop", "boolean", Bool(TRUE))
                       /\ src.currentTime = OptionOr(o, "startTime", "number", Num(0))
                       /\ src.autoPause = o.autoPause
                       /\ src.autoResume = o.autoResume
                       /\ src.plays = PlayExpected(o, dispatches[i].visibilityState)
                  ELSE src = [sourceAtReturn EXCEPT !.listener = FALSE]

C9_Witness ==
    /\ Fired = 1
    /\ GivenType(MediaTypeVIDEO)
    /\ dispatches[1].source.kind = "videoHTML5"
    /\ given.options.t = "object"
    /\ IsTrue(given.options.autoPlay)
    /\ given.options.volume = Num(0)
    /\ dispatches[1].visibilityState = "visible"
    /\ dispatches[1].source.plays = 1
    /\ dispatches[1].source.volume = Num(0)
    /\ sourceAtReturn.loop = Bool(FALSE)
    /\ dispatches[1].source.loop = Bool(TRUE)

\* C10: a subscriber registered on onLoadComplete after it has fired is
\* invoked immediately and exactly once.
C10_LateSubscriberInvokedOnce ==
    \A s \in lateSubscribers : invoked[s] = 1

C10_Witness ==
    /\ GivenType(MediaTypeGRID)
    /\ lateSubscribers # {}
    /\ \A s \in lateSubscribers : invoked[s] = 1


\* C11: destroy() in any state (no source constructed, load pending, loaded)
\* raises no error, destroys the owned source if there is one, and leaves
\* displayObject null.
C11_DestroyIsSafe ==
    [][Destroy => /\ thrown' = thrown
                  /\ media'.displayObject = "null"
                  /\ media.displayObject # "null" => source'.destroyed]_vars

C11_Witness ==
    /\ destroyed
    /\ thrown = NoError
    /\ media.displayObject = "null"
    /\ source.kind # "none"
    /\ source.destroyed
    /\ ~media.loaded


\* C16: resolving a descriptor leaves it unchanged: after construction, and
\* after any later signal or destroy(), every field of the descriptor has the
\* value it had before.
C16_DescriptorUnchanged == config = given

\* C16 (amended): resolving writes two fields of the descriptor's source and
\* nothing else: format becomes Flat when it was unset, and url becomes the
\* list of surviving level urls for a Video descriptor with a levels array;
\* later signals and destroy() change nothing.
ResolvedDescriptor ==
    IF phase = "new" \/ ~GivenSourceObject THEN given
    ELSE [given EXCEPT
            !.source.format = IF @ = Undefined THEN Str(MediaFormatFLAT) ELSE @,
            !.source.url = IF given.type = MediaTypeVIDEO
                              /\ given.source.levels.t = "array"
                           THEN Arr(SurvivingUrls(given.source.levels.l,
                                                  deviceSupport))
                           ELSE @]

C16_OnlyFormatAndUrlWritten == config = ResolvedDescriptor

C16_Witness ==
    /\ GivenType(MediaTypeVIDEO)
    /\ GivenSourceObject
    /\ given.source.format = Undefined
    /\ given.source.url = Str("u")
    /\ given.source.levels = Arr(<<[device |-> "A", url |-> "a"],
                                   [device |-> "B", url |-> "b"]>>)
    /\ deviceSupport = {"B"}
    /\ destroyed
    /\ config.source.format = Str(MediaFormatFLAT)
    /\ config.source.url = Arr(<<Str("b")>>)
    /\ config.options = given.options

\* C18: once destroy() has been called on a resolver that is not loaded, a
\* later signal of the source has no effect: loaded stays false, nothing is
\* dispatched and no error is raised.
C18_LateSignalIgnored ==
    [][(destroyed /\ ~media.loaded)
          => /\ ~media'.loaded
             /\ dispatches' = dispatches
             /\ thrown' = thrown]_vars

OtherType ==
    /\ given.t = "object"
    /\ given.type \notin {MediaTypeIMAGE, MediaTypeVIDEO, MediaTypeGRID}

C20_OtherTypeNeverResolves ==
    OtherType
        => /\ source = NoSource
           /\ media.displayObject = "null"
           /\ ~media.loaded
           /\ Fired = 0

C20_Witness ==
    /\ OtherType
    /\ given.type = MediaTypeUNDEFINED
    /\ GivenSourceObject
    /\ given.source.url = Str("u")
    /\ phase = "constructed"
    /\ destroyed
    /\ ~media.loaded


\* ------------------------------------------- claims on FORGE.PostProcessing

Compiled == fxResult.op = "parseShaderPasses"
Returned == Compiled /\ fxResult.thrown = NoError

\* The uid and type of each stage of a stage sequence.
StageIds(passes) ==
    [i \in 1..Len(passes) |-> [uid |-> passes[i].uid, type |-> passes[i].type]]

\* One stage per descriptor whose type is in the catalog, in input order.
ExpectedStageIds(input) ==
    IF input.t \in {"undefined", "null"} THEN <<>>
    ELSE LET kept == SelectSeq(input.l, LAMBDA fx : fx.type \in DOMAIN Catalog)
         IN [i \in 1..Len(kept) |-> [uid |-> kept[i].uid, type |-> kept[i].type]]

\* C12: whenever compile returns, its output is one stage per input descriptor
\* whose type is in the catalog, in input order, each with that descriptor's
\* uid and type; unknown types are skipped; an empty, null or undefined input
\* gives an empty sequence.
C12_StagesAreKnownDescriptors ==
    Returned => StageIds(fxResult.passes) = ExpectedStageIds(fxInput)

C12_Witness ==
    /\ Returned
    /\ fxInput = Arr(<<Fx("fx-1", "GlowShader", <<>>),
                       Fx("fx-2", "SepiaShader", <<>>)>>)
    /\ StageIds(fxResult.passes) = <<[uid |-> "fx-2", type |-> "SepiaShader"]>>

\* The input is one known effect with one Color parameter spec for an exposed
\* uniform, its args a sequence.
IsColorInput ==
       /\ fxInput.t = "array"
       /\ Len(fxInput.l) = 1
       /\ fxInput.l[1].type = "SepiaShader"
       /\ Len(fxInput.l[1].params) = 1
       /\ fxInput.l[1].params[1].name = "amount"
       /\ HasOwn(fxInput.l[1].params[1].value, "type")
       /\ HasOwn(fxInput.l[1].params[1].value, "args")
       /\ fxInput.l[1].params[1].value.p.type = Str("THREE.Color")
       /\ fxInput.l[1].params[1].value.p.args.t = "array"

ColorArgs == fxInput.l[1].params[1].value.p.args.l

\* C13: for a Color parameter spec, three numbers bind an RGB color to the
\* stage's uniform, a single string or number in the args sequence binds a
\* color built from that value, and two numbers make compile throw.
C13_ColorByArity ==
    (Compiled /\ IsColorInput)
        => LET a == ColorArgs
           IN /\ Len(a) = 3
                    => /\ fxResult.thrown = NoError
                       /\ fxResult.passes[1].uniforms["amount"] = Color3(a[1], a[2], a[3])
              /\ Len(a) = 1
                    => /\ fxResult.thrown = NoError
                       /\ fxResult.passes[1].uniforms["amount"] = Color1(a[1])
              /\ Len(a) = 2 => fxResult.thrown # NoError

\* A Color parameter spec whose args sequence has neither one nor three values.
MalformedColor(value) ==
    /\ HasOwn(value, "type")
    /\ HasOwn(value, "args")
    /\ value.p.type = Str("THREE.Color")
    /\ value.p.args.t = "array"
    /\ Len(value.p.args.l) \notin {1, 3}

\* C17: compile raises only for a Color parameter spec whose args sequence has
\* a malformed arity (neither one nor three values); every other input returns.
C17_OnlyColorArityThrows ==
    (Compiled /\ fxResult.thrown # NoError)
        => \E i \in DOMAIN fxInput.l :
              \E j \in DOMAIN fxInput.l[i].params :
                 MalformedColor(fxInput.l[i].params[j].value)

\* C14: after an addConfig call, getFxSetByUID(k) returns the set of the last
\* entry of that configuration with uid k, and for every other k what it
\* returned before the call.
C14_LastWriteWins ==
    [][(fxCalls' = fxCalls + 1)
          => \A k \in FxKeys :
                LET entries == IF fxConfig'.fxSets.t = "array"
                               THEN fxConfig'.fxSets.l ELSE <<>>
                    at == {i \in DOMAIN entries : entries[i].uid = k}
                IN GetFxSetByUID(fxSets', k) =
                      IF at = {} THEN GetFxSetByUID(fxSets, k)
                      ELSE entries[CHOOSE i \in at : \A j \in at : j <= i].set]_vars

C14_Witness ==
    /\ fxCalls = 2
    /\ fxConfig.fxSets =
          Arr(<<[uid |-> "k1", set |-> Arr(<<>>)],
                [uid |-> "k1", set |-> Arr(<<Fx("fx-1", "SepiaShader", <<>>)>>)]>>)
    /\ GetFxSetByUID(fxSets, "k1") = Arr(<<Fx("fx-1", "SepiaShader", <<>>)>>)
    /\ "k2" \in fxRegistered
    /\ GetFxSetByUID(fxSets, "k2") = Arr(<<>>)

\* C15: getFxSetByUID(k) returns undefined for every key k that no fxSet
\* entry was registered under.
C15_UnregisteredIsUndefined ==
    (fxResult.op = "getFxSetByUID" /\ fxResult.uid \notin fxRegistered)
        => fxResult.value = Undefined

====
